---- MODULE Spec2Model ----
(***************************************************************************)
(* Model of silene: the crawl frontier (crawl_frontier.py), the crawl      *)
(* request value object (crawl_request.py) and the crawl loop of the       *)
(* crawler (crawler.py).                                                   *)
(*                                                                         *)
(* Strings whose characters matter (host names, which are matched against  *)
(* a regular expression) are sequences of one-character strings.  Query    *)
(* parameter names and values are small naturals so that they can be       *)
(* sorted; the value 0 stands for the empty string.                        *)
(***************************************************************************)
EXTENDS Integers, Sequences, FiniteSets, TLC

\* ------------------------------------------------------------------------
\* Bounds
\* ------------------------------------------------------------------------

\* largest number of pending requests the model lets the frontier hold
MaxQueue == 4

\* largest number of pending requests at which the model lets user code call
\* crawl()
MaxCrawlQueue == 2

\* largest number of add_request calls after the construction of a frontier
\* that the model compares with a construction from seed requests
MaxReplay == 2

\* largest number of pages open in the browser
MaxPages == 2

\* largest number of allowed-domain strings a configuration is constructed
\* from
MaxDomains == 2

\* largest number of query parameters of the URLs whose fingerprint is taken
\* on its own
MaxParams == 2

\* ------------------------------------------------------------------------
\* Values
\* ------------------------------------------------------------------------

\* Python's None in a callback field, and in a place that holds a request
None == "None"
NoRequest == [none |-> TRUE]
\* no browser request or response
NoMessage == [none |-> TRUE]

\* host names: "e.c" plays example.com, "s.e.c" sub.example.com,
\* "ne.c" notexample.com, "exc" a host that differs from "e.c" in the
\* character at the position of the dot
H_ex == <<"e", ".", "c">>
H_sub == <<"s", ".", "e", ".", "c">>
H_notex == <<"n", "e", ".", "c">>
H_exc == <<"e", "x", "c">>

Param(name, value) == <<name, value>>

Url(host, path, query, fragment) ==
    [host |-> host, path |-> path, query |-> query, fragment |-> fragment]

\* http://e.c/test?1=1&2=2#fragment and http://e.c/test?2=2&1=1
U_ex_a == Url(H_ex, "/test", <<Param(1, 1), Param(2, 2)>>, "fragment")
U_ex_b == Url(H_ex, "/test", <<Param(2, 2), Param(1, 1)>>, "")
U_ex_other == Url(H_ex, "/other", <<>>, "")
U_sub == Url(H_sub, "/", <<>>, "")
U_notex == Url(H_notex, "/", <<>>, "")
U_exc == Url(H_exc, "/", <<>>, "")

Urls == {U_ex_a, U_ex_b, U_ex_other, U_sub, U_notex, U_exc}

\* CrawlRequest.__init__: the fields of a crawl request
CrawlRequest(url, priority, redirect_func, success_func, error_func) ==
    [url |-> url, priority |-> priority, redirect_func |-> redirect_func,
     success_func |-> success_func, error_func |-> error_func]

\* CrawlRequest.domain: urlparse(url).hostname, derived from the URL
domain(request) == request.url.host

\* a comparison that orders by ascending priority
lt_ascending(a, b) == a.priority < b.priority

\* CrawlRequest.__lt__: a request is "less" when its priority is higher
lt(a, b) == a.priority > b.priority

R_a == CrawlRequest(U_ex_a, 5, None, None, None)
R_b == CrawlRequest(U_ex_b, 1, "redirect_func", "success_func", "error_func")
R_other == CrawlRequest(U_ex_other, 9, None, None, None)
R_sub == CrawlRequest(U_sub, 5, None, None, None)
R_notex == CrawlRequest(U_notex, 9, None, None, None)
R_exc == CrawlRequest(U_exc, 1, None, None, None)

\* the requests a caller hands to the frontier
Requests == {R_a, R_b, R_other, R_sub, R_notex, R_exc}

\* ------------------------------------------------------------------------
\* URL fingerprint (CrawlFrontier._generate_url_hash)
\* ------------------------------------------------------------------------

\* parse_qsl with its default keep_blank_values=False drops the parameters
\* whose value is empty
RECURSIVE parse_qsl(_)
parse_qsl(query) ==
    IF query = <<>> THEN <<>>
    ELSE IF Head(query)[2] = 0 THEN parse_qsl(Tail(query))
    ELSE <<Head(query)>> \o parse_qsl(Tail(query))

\* the sort key (param[0], param[1]), compared as Python compares tuples
param_le(p, q) == p[1] < q[1] \/ (p[1] = q[1] /\ p[2] <= q[2])

RECURSIVE insert_sorted(_, _)
insert_sorted(p, sorted_params) ==
    IF sorted_params = <<>> THEN <<p>>
    ELSE IF param_le(p, Head(sorted_params)) THEN <<p>> \o sorted_params
    ELSE <<Head(sorted_params)>> \o insert_sorted(p, Tail(sorted_params))

RECURSIVE sorted(_)
sorted(params) ==
    IF params = <<>> THEN <<>>
    ELSE insert_sorted(Head(params), sorted(Tail(params)))

\* a fingerprint that keeps the query parameters in the order given
generate_url_hash_unsorted(url) == [url EXCEPT !.fragment = ""]

\* the normalized URL: query re-encoded from the sorted parameters, fragment
\* replaced by the empty string.  sha256 of the normalized URL is modelled
\* as the normalized URL itself (the digest is taken to be injective).
generate_url_hash(url) ==
    [url EXCEPT !.query = sorted(parse_qsl(url.query)), !.fragment = ""]

\* ------------------------------------------------------------------------
\* heapq, as called by the frontier (1-based positions)
\* ------------------------------------------------------------------------

\* heapq._siftdown(heap, startpos, pos): move heap[pos] up towards startpos
RECURSIVE siftdown_loop(_, _, _, _)
siftdown_loop(heap, startpos, pos, newitem) ==
    IF pos > startpos
    THEN LET parentpos == pos \div 2
             parent == heap[parentpos]
         IN  IF lt(newitem, parent)
             THEN siftdown_loop([heap EXCEPT ![pos] = parent], startpos, parentpos, newitem)
             ELSE [heap EXCEPT ![pos] = newitem]
    ELSE [heap EXCEPT ![pos] = newitem]

siftdown(heap, startpos, pos) == siftdown_loop(heap, startpos, pos, heap[pos])

\* heapq._siftup(heap, pos): bubble the smaller child up until a leaf is hit,
\* then sift the displaced item down into place
RECURSIVE siftup_loop(_, _, _, _)
siftup_loop(heap, startpos, pos, newitem) ==
    LET endpos == Len(heap)
        childpos == 2 * pos
        rightpos == childpos + 1
    IN  IF childpos <= endpos
        THEN LET c == IF rightpos <= endpos /\ ~lt(heap[childpos], heap[rightpos])
                      THEN rightpos ELSE childpos
             IN  siftup_loop([heap EXCEPT ![pos] = heap[c]], startpos, c, newitem)
        ELSE siftdown([heap EXCEPT ![pos] = newitem], startpos, pos)

siftup(heap, pos) == siftup_loop(heap, pos, pos, heap[pos])

\* heapq.heappush(heap, item)
heappush(heap, item) == siftdown(Append(heap, item), 1, Len(heap) + 1)

\* a pop that returns the root but takes the last item off the heap
heappop_drop_last(heap) ==
    [item |-> heap[1], heap |-> SubSeq(heap, 1, Len(heap) - 1)]

\* heapq.heappop(heap) on a non-empty heap: the returned item and the heap left
heappop(heap) ==
    LET lastelt == heap[Len(heap)]
        rest == SubSeq(heap, 1, Len(heap) - 1)
    IN  IF rest # <<>>
        THEN [item |-> rest[1], heap |-> siftup([rest EXCEPT ![1] = lastelt], 1)]
        ELSE [item |-> lastelt, heap |-> rest]

\* ------------------------------------------------------------------------
\* State
\* ------------------------------------------------------------------------

VARIABLES
    \* CrawlerConfiguration
    seed_requests, filter_duplicate_requests, filter_offsite_requests, allowed_domains,
    \* CrawlFrontier
    requests, url_hashes,
    \* history of the frontier calls: the last call, its argument, its
    \* boolean result and the request it returned; the URLs of the admitted
    \* requests; the admitted requests not yet returned; whether a request
    \* was returned that was not outstanding
    op, arg, result, returned, admitted_urls, outstanding, returned_unadmitted,
    \* the requests handed to add_request since the construction, as long as
    \* nothing but add_request has changed the frontier
    replay,
    \* Crawler: where start() is, and the fields of the crawler
    pc, running, stop_initiated, next_request, send_head_request, aborted_request,
    last_request, last_response,
    \* the user code start() is in: its kind and the function called
    handler,
    \* the hooks start() has called so far, in the order of the calls
    hooks,
    \* browser: the request paused at the interception hook, the request sent
    \* to the server and not answered yet, the state of the navigation that
    \* goto awaits and the response goto returns
    intercepted, on_wire, navigation, navigation_response,
    \* history of the run: what the fetch cycle of next_request has done so
    \* far, the number of fetch cycles begun and not ended, the URLs that
    \* were the target of a redirect and whose GET was not answered since
    cycle, in_flight, redirect_owed,
    \* the requests that crawl() admitted for user code before the loop ended
    \* and for which no success or error function was called since, each
    \* with "redirected" once a redirect function was called for it
    crawl_owed,
    \* the pages open in the browser, in the order of browser.pages(), each
    \* a page identifier; Crawler._page with Crawler._page_index
    browser_pages, current_page,
    \* the page operation of the crawler that user code called in the last
    \* step, and how the call went
    page_call,
    \* a method of a value object called on its own: the method, the objects
    \* it is called on, whether it has returned and the value it returned
    call

config_vars == <<seed_requests, filter_duplicate_requests, filter_offsite_requests, allowed_domains>>
frontier_vars == <<requests, url_hashes>>
history_vars == <<op, arg, result, returned, admitted_urls, outstanding, returned_unadmitted,
                  replay>>
crawler_vars == <<pc, running, stop_initiated, next_request, send_head_request, aborted_request,
                  last_request, last_response, handler, hooks>>
browser_vars == <<intercepted, on_wire, navigation, navigation_response>>
run_vars == <<cycle, in_flight, redirect_owed, crawl_owed>>
page_vars == <<browser_pages, current_page>>
vars == <<config_vars, frontier_vars, history_vars, crawler_vars, browser_vars, run_vars,
          page_vars, page_call, call>>

\* ------------------------------------------------------------------------
\* CrawlFrontier
\* ------------------------------------------------------------------------

\* one alternative of the compiled pattern against a string: the allowed
\* domain is pasted into the pattern unescaped, so its "." matches any
\* character
match_alternative(alternative, string) ==
    /\ Len(alternative) = Len(string)
    /\ \A i \in 1..Len(string) : alternative[i] = "." \/ alternative[i] = string[i]

\* "|".join(allowed_domains): the alternatives of the group; an empty list
\* gives the empty group, which matches the empty string
alternatives(domains) ==
    IF domains = <<>> THEN {<<>>} ELSE {domains[i] : i \in 1..Len(domains)}

\* re.search(r'^(?:.*\.)?(a|b|...)$', string): an optional prefix that ends
\* with a literal dot, then one of the alternatives up to the end
allowed_domain_pattern_search(domains, string) ==
    \E k \in 0..Len(string) :
        /\ k = 0 \/ string[k] = "."
        /\ \E alternative \in alternatives(domains) :
               match_alternative(alternative, SubSeq(string, k + 1, Len(string)))

\* an add_request that filters duplicates whatever the configuration says
add_request_always_filtering(heap, hashes, request) ==
    LET url_hash == generate_url_hash(request.url)
    IN  IF url_hash \in hashes
        THEN [requests |-> heap, url_hashes |-> hashes, result |-> FALSE]
        ELSE IF /\ filter_offsite_requests
                /\ ~allowed_domain_pattern_search(allowed_domains, domain(request))
        THEN [requests |-> heap, url_hashes |-> hashes \cup {url_hash}, result |-> FALSE]
        ELSE [requests |-> heappush(heap, request), url_hashes |-> hashes \cup {url_hash},
              result |-> TRUE]

\* CrawlFrontier.add_request on a frontier (heap, hashes): the frontier left
\* and the value returned
add_request(heap, hashes, request) ==
    LET url_hash == generate_url_hash(request.url)
        hashes_after == IF filter_duplicate_requests THEN hashes \cup {url_hash} ELSE hashes
    IN  IF filter_duplicate_requests /\ url_hash \in hashes
        THEN [requests |-> heap, url_hashes |-> hashes, result |-> FALSE]
        ELSE IF /\ filter_offsite_requests
                /\ ~allowed_domain_pattern_search(allowed_domains, domain(request))
        THEN [requests |-> heap, url_hashes |-> hashes_after, result |-> FALSE]
        ELSE [requests |-> heappush(heap, request), url_hashes |-> hashes_after,
              result |-> TRUE]

\* CrawlFrontier.__init__: add_request for every seed request, in order
RECURSIVE construct_frontier(_, _, _)
construct_frontier(heap, hashes, seeds) ==
    IF seeds = <<>> THEN [requests |-> heap, url_hashes |-> hashes]
    ELSE LET added == add_request(heap, hashes, Head(seeds))
         IN  construct_frontier(added.requests, added.url_hashes, Tail(seeds))

\* the seeds that the constructor admitted
RECURSIVE admitted_seeds(_, _, _)
admitted_seeds(heap, hashes, seeds) ==
    IF seeds = <<>> THEN <<>>
    ELSE LET added == add_request(heap, hashes, Head(seeds))
         IN  (IF added.result THEN <<Head(seeds)>> ELSE <<>>)
                 \o admitted_seeds(added.requests, added.url_hashes, Tail(seeds))

\* the number of times an item occurs in a sequence
count(item, seq) == Cardinality({i \in 1..Len(seq) : seq[i] = item})

\* a sequence as a bag over the requests that occur in the model
bag_of(seq) == [r \in {seq[i] : i \in 1..Len(seq)} |-> count(r, seq)]

bag_add(bag, r) ==
    [x \in DOMAIN bag \cup {r} |->
        (IF x \in DOMAIN bag THEN bag[x] ELSE 0) + (IF x = r THEN 1 ELSE 0)]

bag_remove(bag, r) ==
    [x \in {y \in DOMAIN bag : y # r \/ bag[y] > 1} |->
        bag[x] - (IF x = r THEN 1 ELSE 0)]

\* no user code is running; while user code runs: which outcome it handles,
\* the function that was called and the arguments it was called with
NoHandler == [kind |-> "none", callee |-> "none", args |-> <<>>]

\* the history of a fetch cycle: the methods of the requests sent to the
\* server, the first answer to the probe ("answered": a status that is no
\* redirect, "redirected": a redirect), the status of the answer to the GET
\* (-1: no answer), the functions called for the outcome, the request made
\* for the redirect target and whether add_request admitted it
NewCycle ==
    [sent |-> <<>>, probe |-> "none", get_status |-> -1, invoked |-> <<>>,
     redirected_request |-> NoRequest, admitted |-> FALSE,
     hop |-> NoMessage, aborted |-> NoMessage]
NoCycle == NewCycle

\* Crawler._page and Crawler._page_index are None
NoPage == [none |-> TRUE]

\* the arguments of a page operation that takes none of them
NoPageInput == [index |-> 0, found |-> TRUE, navigated |-> TRUE]

\* the last step was no call of a page operation
NoPageCall == [operation |-> "none", input |-> NoPageInput, outcome |-> "none"]

\* no method of a value object is called on its own
NoCall == [function |-> "none", args |-> <<>>, returned |-> FALSE, value |-> NoRequest]

\* the frontier has seen more than calls of add_request
NoReplay == [exact |-> FALSE, added |-> <<>>]

\* the configurations the model starts from
SeedLists == {<<>>, <<R_a, R_b>>, <<R_notex, R_sub>>, <<R_exc>>}
AllowedDomainLists == {<<>>, <<H_ex>>}

Init ==
    /\ seed_requests \in SeedLists
    /\ filter_duplicate_requests \in BOOLEAN
    /\ filter_offsite_requests \in BOOLEAN
    /\ allowed_domains \in AllowedDomainLists
    /\ LET frontier == construct_frontier(<<>>, {}, seed_requests)
           seeds == admitted_seeds(<<>>, {}, seed_requests)
       IN  /\ requests = frontier.requests
           /\ url_hashes = frontier.url_hashes
           /\ admitted_urls = {seeds[i].url : i \in 1..Len(seeds)}
           /\ outstanding = bag_of(seeds)
    /\ op = "init"
    /\ arg = NoRequest
    /\ result = FALSE
    /\ returned = NoRequest
    /\ returned_unadmitted = FALSE
    /\ replay = [exact |-> TRUE, added |-> <<>>]
    /\ pc = "constructed"
    /\ running = FALSE
    /\ stop_initiated = FALSE
    /\ next_request = NoRequest
    /\ send_head_request = FALSE
    /\ aborted_request = FALSE
    /\ last_request = NoMessage
    /\ last_response = NoMessage
    /\ handler = NoHandler
    /\ hooks = <<>>
    /\ intercepted = NoMessage
    /\ on_wire = NoMessage
    /\ navigation = "none"
    /\ navigation_response = NoMessage
    /\ cycle = NoCycle
    /\ in_flight = 0
    /\ redirect_owed = {}
    /\ crawl_owed = {}
    /\ browser_pages = <<>>
    /\ current_page = NoPage
    /\ page_call = NoPageCall
    /\ call = NoCall

\* add_request(request) is called: the frontier and the history afterwards
FrontierAdd(request) ==
    LET added == add_request(requests, url_hashes, request)
    IN  /\ requests' = added.requests
        /\ url_hashes' = added.url_hashes
        /\ op' = "add_request"
        /\ arg' = request
        /\ result' = added.result
        /\ returned' = NoRequest
        /\ admitted_urls' = IF added.result THEN admitted_urls \cup {request.url}
                            ELSE admitted_urls
        /\ outstanding' = IF added.result THEN bag_add(outstanding, request)
                          ELSE outstanding
        /\ replay' = IF replay.exact /\ Len(replay.added) < MaxReplay
                     THEN [replay EXCEPT !.added = Append(@, request)]
                     ELSE NoReplay
        /\ UNCHANGED returned_unadmitted

\* a get_next_request that returns the first pending request and leaves it
\* in the frontier
get_next_request_peek(heap) ==
    IF heap = <<>> THEN [requests |-> heap, result |-> NoRequest]
    ELSE [requests |-> heap, result |-> heap[1]]

\* CrawlFrontier.get_next_request: heappop, None when the heap is empty
get_next_request(heap) ==
    IF heap = <<>> THEN [requests |-> heap, result |-> NoRequest]
    ELSE LET popped == heappop(heap)
         IN  [requests |-> popped.heap, result |-> popped.item]

\* get_next_request() is called: the frontier and the history afterwards
FrontierGet ==
    LET next == get_next_request(requests)
    IN  /\ requests' = next.requests
        /\ op' = "get_next_request"
        /\ arg' = NoRequest
        /\ result' = FALSE
        /\ returned' = next.result
        /\ outstanding' = IF next.result \in DOMAIN outstanding
                          THEN bag_remove(outstanding, next.result)
                          ELSE outstanding
        /\ returned_unadmitted' =
               (returned_unadmitted
                   \/ (next.result # NoRequest /\ next.result \notin DOMAIN outstanding))
        /\ replay' = NoReplay
        /\ UNCHANGED <<url_hashes, admitted_urls>>

\* a test that needs two pending requests
has_next_request_more_than_one(heap) == Len(heap) > 1

\* CrawlFrontier.has_next_request
has_next_request(heap) == Len(heap) > 0

\* a step that does not call the frontier
NoFrontierCall ==
    /\ op' = "none"
    /\ arg' = NoRequest
    /\ result' = FALSE
    /\ returned' = NoRequest
    /\ UNCHANGED <<frontier_vars, admitted_urls, outstanding, returned_unadmitted, replay>>

\* a caller calls add_request(request)
AddRequest(request) ==
    /\ Len(requests) < MaxQueue
    /\ FrontierAdd(request)
    /\ page_call' = NoPageCall
    /\ UNCHANGED <<call, page_vars, config_vars, crawler_vars, browser_vars, run_vars>>

\* a caller calls get_next_request()
GetNextRequest ==
    /\ FrontierGet
    /\ page_call' = NoPageCall
    /\ UNCHANGED <<call, page_vars, config_vars, crawler_vars, browser_vars, run_vars>>

\* a caller calls has_next_request()
HasNextRequest ==
    /\ op' = "has_next_request"
    /\ arg' = NoRequest
    /\ result' = has_next_request(requests)
    /\ returned' = NoRequest
    /\ page_call' = NoPageCall
    /\ UNCHANGED <<call, page_vars, config_vars, frontier_vars, admitted_urls, outstanding,
                   returned_unadmitted, replay, crawler_vars, browser_vars, run_vars>>

\* the frontier driven through its public methods in any order
FrontierNext ==
    \/ \E request \in Requests : AddRequest(request)
    \/ GetNextRequest
    \/ HasNextRequest

FrontierSpec == Init /\ [][FrontierNext]_vars

\* a URL without a host, such as "/test": urlparse gives the hostname None,
\* which the empty host name stands for
U_nohost == Url(<<>>, "/test", <<>>, "")
R_nohost == CrawlRequest(U_nohost, 5, None, None, None)

\* the requests handed to add_request when its outcome is looked at
AdmissionRequests == {R_a, R_notex, R_nohost}

\* CrawlFrontier.add_request: re.search(pattern, request.domain) is reached
\* when the request is no duplicate that is filtered and off-site requests
\* are filtered; with the domain None it raises TypeError
add_request_raises(hashes, request) ==
    /\ ~(filter_duplicate_requests /\ generate_url_hash(request.url) \in hashes)
    /\ filter_offsite_requests
    /\ domain(request) = <<>>

\* add_request(request) is called and returns or raises; when it raises,
\* the fingerprint has been recorded already and nothing was pushed
AddRequestCall(request) ==
    /\ Len(requests) < MaxQueue
    /\ IF add_request_raises(url_hashes, request)
       THEN /\ url_hashes' = IF filter_duplicate_requests
                             THEN url_hashes \cup {generate_url_hash(request.url)}
                             ELSE url_hashes
            /\ op' = "add_request"
            /\ arg' = request
            /\ result' = FALSE
            /\ returned' = NoRequest
            /\ replay' = NoReplay
            /\ call' = [function |-> "add_request", args |-> <<request>>, returned |-> FALSE,
                        value |-> [raised |-> "TypeError"]]
            /\ UNCHANGED <<requests, admitted_urls, outstanding, returned_unadmitted>>
       ELSE /\ FrontierAdd(request)
            /\ call' = [function |-> "add_request", args |-> <<request>>, returned |-> TRUE,
                        value |-> [raised |-> "none"]]
    /\ page_call' = NoPageCall
    /\ UNCHANGED <<page_vars, config_vars, crawler_vars, browser_vars, run_vars>>

AdmissionNext ==
    \/ \E request \in AdmissionRequests : AddRequestCall(request)
    \/ GetNextRequest

AdmissionSpec == Init /\ [][AdmissionNext]_vars

\* ------------------------------------------------------------------------
\* Browser and server
\* ------------------------------------------------------------------------

\* the headers the browser puts on a request it is about to send
RawHeaders == {{}, {<<"user-agent", "browser">>}}

\* a navigation request of the browser (pyppeteer Request): redirect_chain
\* holds the URLs of the hops that led to it
RawRequest(url, redirect_chain, headers) ==
    [url |-> url, is_navigation |-> TRUE, redirect_chain |-> redirect_chain,
     headers |-> headers]

\* a response of the server (pyppeteer Response)
RawResponse(url, status, headers) == [url |-> url, status |-> status, headers |-> headers]

\* the statuses a server answers with when it does not redirect
Statuses == {200, 300, 500}

\* the Location a server answers with when it redirects
RedirectTargets == {U_ex_a, U_sub, U_exc}

\* ------------------------------------------------------------------------
\* Crawler
\* ------------------------------------------------------------------------

\* a merge in which the fields of other win
merge_other_first(self, other) ==
    CrawlRequest(self.url,
                 IF other.priority # 0 THEN other.priority ELSE self.priority,
                 IF other.redirect_func # None THEN other.redirect_func ELSE self.redirect_func,
                 IF other.success_func # None THEN other.success_func ELSE self.success_func,
                 IF other.error_func # None THEN other.error_func ELSE self.error_func)

\* CrawlRequest.merge: the fields of other fill in what self leaves unset
merge(self, other) ==
    CrawlRequest(self.url,
                 IF self.priority # 0 THEN self.priority ELSE other.priority,
                 IF self.redirect_func # None THEN self.redirect_func ELSE other.redirect_func,
                 IF self.success_func # None THEN self.success_func ELSE other.success_func,
                 IF self.error_func # None THEN self.error_func ELSE other.error_func)

\* CrawlResponse.__init__
CrawlResponse(request, status, headers, text) ==
    [request |-> request, status |-> status, headers |-> headers, text |-> text]

\* the functions that handle an outcome, with both called
dispatch_both(func, default_hook) ==
    IF func # None THEN <<func, default_hook>> ELSE <<default_hook>>

\* "request.func(...) if request.func else self.default_hook(...)": the
\* functions called to handle an outcome
dispatch(func, default_hook) ==
    IF func # None THEN <<func>> ELSE <<default_hook>>

\* a hook that aborts no request
is_redirect_continuation_never(request) == FALSE

\* Crawler._on_request: the request is a navigation request that continues
\* a redirect
is_redirect_continuation(request) ==
    request.is_navigation /\ Len(request.redirect_chain) > 0

\* a method that is never rewritten
outgoing_method_unchanged(request_method, head) == request_method

\* Crawler._on_request: the method the request is continued with
outgoing_method(request_method, head) ==
    IF head THEN "HEAD" ELSE request_method

\* a classification that counts 300 as a success
is_success_inclusive(status) == 200 <= status /\ status <= 300

\* Crawler._handle_response: the condition of the success path
is_success(status) == 200 <= status /\ status < 300

\* a loop that goes on while a navigation is still awaited
at_loop_head_without_waiting == pc \in {"run", "probe_goto", "get_goto"}

\* Crawler._run: start() is at the head of the while loop, every call made
\* in the body of the previous iteration having returned
at_loop_head == pc = "run"

\* a loop condition that does not look at the stop flag
loop_condition_without_stop == has_next_request(requests)

\* Crawler._run: the condition of the while loop
loop_condition == ~stop_initiated /\ has_next_request(requests)

\* the page with this identifier is open in the browser
is_open(id) == \E i \in 1..Len(browser_pages) : browser_pages[i] = id

\* a start() that enters the crawl loop without calling on_start
Start_without_on_start ==
    /\ pc = "constructed"
    /\ running' = TRUE
    /\ pc' = "run"
    /\ browser_pages' = <<1>>
    /\ current_page' = [id |-> 1, index |-> 0]
    /\ NoFrontierCall
    /\ page_call' = NoPageCall
    /\ UNCHANGED <<call, config_vars, stop_initiated, next_request, send_head_request,
                   aborted_request, last_request, last_response, handler, hooks, browser_vars,
                   run_vars>>

\* Crawler.start up to the call of on_start: the browser is launched and its
\* first page becomes the current page, with index 0
Start ==
    /\ pc = "constructed"
    /\ running' = TRUE
    /\ browser_pages' = <<1>>
    /\ current_page' = [id |-> 1, index |-> 0]
    /\ pc' = "handler"
    /\ handler' = [kind |-> "on_start", callee |-> "on_start", args |-> <<>>]
    /\ hooks' = Append(hooks, "on_start")
    /\ NoFrontierCall
    /\ page_call' = NoPageCall
    /\ UNCHANGED <<call, config_vars, stop_initiated, next_request, send_head_request,
                   aborted_request, last_request, last_response, browser_vars, run_vars>>

\* Crawler.stop, called from user code or from another thread
Stop ==
    /\ pc \notin {"returned", "raised"}
    /\ stop_initiated' = TRUE
    /\ NoFrontierCall
    /\ page_call' = NoPageCall
    /\ UNCHANGED <<call, page_vars, config_vars, hooks,
                   pc, running, next_request, send_head_request, aborted_request,
                   last_request, last_response, handler, browser_vars, run_vars>>

\* the requests user code hands to crawl()
CrawlArguments == {R_other}

\* a crawl() that returns True and hands nothing to the frontier
Crawl_without_admission(request) ==
    /\ pc = "handler"
    /\ Len(requests) < MaxCrawlQueue
    /\ op' = "add_request"
    /\ arg' = request
    /\ result' = TRUE
    /\ returned' = NoRequest
    /\ crawl_owed' = IF handler.kind # "on_stop"
                     THEN crawl_owed \cup {[url |-> request.url, probe |-> "none"]}
                     ELSE crawl_owed
    /\ page_call' = NoPageCall
    /\ UNCHANGED <<call, page_vars, config_vars, frontier_vars, admitted_urls, outstanding,
                   returned_unadmitted, replay, crawler_vars, browser_vars, cycle, in_flight,
                   redirect_owed>>

\* Crawler.crawl, called from the user code start() is in: the value of
\* add_request is returned
Crawl(request) ==
    /\ pc = "handler"
    /\ Len(requests) < MaxCrawlQueue
    /\ FrontierAdd(request)
    /\ crawl_owed' = IF result' /\ handler.kind # "on_stop"
                     THEN crawl_owed \cup {[url |-> request.url, probe |-> "none"]}
                     ELSE crawl_owed
    /\ page_call' = NoPageCall
    /\ UNCHANGED <<call, page_vars, config_vars, crawler_vars, browser_vars, cycle, in_flight,
                   redirect_owed>>

\* Crawler._run, one evaluation of the loop condition: the next request is
\* dequeued and the probe navigation is begun, or the loop ends and start()
\* calls on_stop
RunLoop ==
    /\ at_loop_head
    /\ IF loop_condition
       THEN /\ aborted_request' = FALSE
            /\ FrontierGet
            /\ next_request' = get_next_request(requests).result
            /\ send_head_request' = TRUE
            /\ \E headers \in RawHeaders :
                   intercepted' = RawRequest(next_request'.url, <<>>, headers)
            /\ navigation' = "pending"
            /\ pc' = "probe_goto"
            /\ cycle' = NewCycle
            /\ in_flight' = in_flight + 1
            /\ UNCHANGED <<handler, hooks, on_wire, navigation_response>>
       ELSE /\ pc' = "handler"
            /\ handler' = [kind |-> "on_stop", callee |-> "on_stop", args |-> <<>>]
            /\ hooks' = Append(hooks, "on_stop")
            /\ NoFrontierCall
            /\ UNCHANGED <<next_request, send_head_request, aborted_request, browser_vars,
                           cycle, in_flight>>
    /\ page_call' = NoPageCall
    /\ UNCHANGED <<call, page_vars, config_vars, running, stop_initiated, last_request, last_response,
                   redirect_owed, crawl_owed>>

\* Crawler._on_request for the request paused at the interception hook: a
\* navigation request with a redirect chain is aborted, which fails the
\* navigation with a PageError; any other request is continued with the
\* overrides.  Reading self._next_request.headers raises AttributeError
\* (CrawlRequest has no such attribute); the hook then ends without
\* resolving the request and the navigation runs into its timeout.
OnRequest ==
    /\ pc \in {"probe_goto", "get_goto"}
    /\ intercepted # NoMessage
    /\ last_request' = intercepted
    /\ intercepted' = NoMessage
    /\ IF is_redirect_continuation(intercepted)
       THEN /\ aborted_request' = TRUE
            /\ navigation' = "page_error"
            /\ cycle' = [cycle EXCEPT !.aborted = intercepted]
            /\ UNCHANGED on_wire
       ELSE IF intercepted.headers # {}
       THEN /\ navigation' = "timeout_error"
            /\ UNCHANGED <<aborted_request, on_wire, cycle>>
       ELSE /\ on_wire' = [url |-> intercepted.url,
                           method |-> outgoing_method("GET", send_head_request),
                           headers |-> intercepted.headers]
            /\ cycle' = [cycle EXCEPT !.sent = Append(@, on_wire'.method)]
            /\ UNCHANGED <<aborted_request, navigation>>
    /\ NoFrontierCall
    /\ page_call' = NoPageCall
    /\ UNCHANGED <<call, page_vars, config_vars, hooks,
                   pc, running, stop_initiated, next_request, send_head_request,
                   last_response, handler, navigation_response, in_flight, redirect_owed, crawl_owed>>

\* the server answers the request with a status that is no redirect; the
\* browser reports the response (Crawler._on_response) and the navigation
\* ends with it
OnResponse(status) ==
    /\ on_wire # NoMessage
    /\ LET response == RawResponse(on_wire.url, status, {<<"server", "httpserver">>})
       IN  /\ last_response' = response
           /\ navigation_response' = response
    /\ navigation' = "finished"
    /\ on_wire' = NoMessage
    /\ cycle' = IF on_wire.method = "HEAD" /\ cycle.probe = "none"
                THEN [cycle EXCEPT !.probe = "answered"] ELSE cycle
    /\ NoFrontierCall
    /\ page_call' = NoPageCall
    /\ UNCHANGED <<call, page_vars, config_vars, hooks,
                   pc, running, stop_initiated, next_request, send_head_request,
                   aborted_request, last_request, handler, intercepted, in_flight,
                   redirect_owed, crawl_owed>>

\* the server answers the request with a 301 and a Location; the browser
\* reports the response (Crawler._on_response) and follows the redirect with
\* a request that is intercepted in turn
OnRedirectResponse(target) ==
    /\ on_wire # NoMessage
    /\ last_response' = RawResponse(on_wire.url, 301, {<<"location", target>>})
    /\ \E headers \in RawHeaders :
           intercepted' = RawRequest(target, <<on_wire.url>>, headers)
    /\ on_wire' = NoMessage
    /\ cycle' = IF on_wire.method = "HEAD" /\ cycle.probe = "none"
                THEN [cycle EXCEPT !.probe = "redirected", !.hop = last_response']
                ELSE cycle
    /\ NoFrontierCall
    /\ page_call' = NoPageCall
    /\ UNCHANGED <<call, page_vars, config_vars, hooks,
                   pc, running, stop_initiated, next_request, send_head_request,
                   aborted_request, last_request, handler, navigation, navigation_response,
                   in_flight, redirect_owed, crawl_owed>>

\* the server cannot be reached: the navigation fails with a PageError
ConnectionError ==
    /\ on_wire # NoMessage
    /\ on_wire' = NoMessage
    /\ navigation' = "page_error"
    /\ NoFrontierCall
    /\ page_call' = NoPageCall
    /\ UNCHANGED <<call, page_vars, config_vars, crawler_vars, intercepted, navigation_response, run_vars>>

\* Crawler._run after the probe: goto has returned, the GET navigation is
\* begun
ProbeReturns ==
    /\ pc = "probe_goto"
    /\ navigation = "finished"
    /\ send_head_request' = FALSE
    /\ \E headers \in RawHeaders :
           intercepted' = RawRequest(next_request.url, <<>>, headers)
    /\ navigation' = "pending"
    /\ navigation_response' = NoMessage
    /\ pc' = "get_goto"
    /\ NoFrontierCall
    /\ page_call' = NoPageCall
    /\ UNCHANGED <<call, page_vars, config_vars, hooks,
                   running, stop_initiated, next_request, aborted_request,
                   last_request, last_response, handler, on_wire, run_vars>>

\* a response to a redirected request that carries a body
redirect_response_with_text(origin_crawl_request, response) ==
    CrawlResponse(origin_crawl_request, response.status, response.headers, "text")

\* Crawler._handle_redirect: the response handed to the redirect function
redirect_response(origin_crawl_request, response) ==
    CrawlResponse(origin_crawl_request, response.status, response.headers, None)

\* Crawler._handle_redirect: the request for the redirect target is handed
\* to crawl(), then the redirect function is called
HandleRedirect(origin_crawl_request, origin_request, response) ==
    LET crawl_response == redirect_response(origin_crawl_request, response)
        redirected_request == merge(CrawlRequest(origin_request.url, 0, None, None, None),
                                    origin_crawl_request)
        called == dispatch(origin_crawl_request.redirect_func, "on_request_redirect")
    IN  /\ FrontierAdd(redirected_request)
        /\ handler' = [kind |-> "redirect", callee |-> called[Len(called)],
                       args |-> <<crawl_response, redirected_request>>]
        /\ cycle' = [cycle EXCEPT !.invoked = @ \o called,
                                  !.redirected_request = redirected_request,
                                  !.admitted = result']
        /\ redirect_owed' = redirect_owed \cup {redirected_request.url}
        /\ crawl_owed' = {IF owed.url = origin_crawl_request.url
                          THEN [owed EXCEPT !.probe = "redirected"] ELSE owed :
                              owed \in crawl_owed}
        /\ pc' = "handler"

\* a loop that lets every failure of the probe leave start()
ProbeRaises_absorbing_nothing ==
    /\ pc = "probe_goto"
    /\ navigation \in {"page_error", "timeout_error"}
    /\ pc' = "raised"
    /\ in_flight' = in_flight - 1
    /\ NoFrontierCall
    /\ navigation' = "none"
    /\ page_call' = NoPageCall
    /\ UNCHANGED <<call, page_vars, config_vars, hooks, handler, cycle, redirect_owed,
                   crawl_owed, running, stop_initiated, next_request, send_head_request,
                   aborted_request, last_request, last_response, intercepted, on_wire,
                   navigation_response>>

\* Crawler._run after the probe: goto has raised.  A PageError after the
\* hook aborted a request is taken as a redirect; any other error leaves
\* start()
ProbeRaises ==
    /\ pc = "probe_goto"
    /\ navigation \in {"page_error", "timeout_error"}
    /\ IF navigation = "page_error" /\ aborted_request
       THEN /\ HandleRedirect(next_request, last_request, last_response)
            /\ UNCHANGED in_flight
       ELSE /\ pc' = "raised"
            /\ in_flight' = in_flight - 1
            /\ NoFrontierCall
            /\ UNCHANGED <<handler, cycle, redirect_owed, crawl_owed>>
    /\ navigation' = "none"
    /\ page_call' = NoPageCall
    /\ UNCHANGED <<call, page_vars, config_vars, hooks,
                   running, stop_initiated, next_request, send_head_request,
                   aborted_request, last_request, last_response, intercepted, on_wire,
                   navigation_response>>

\* Crawler._handle_response: the success or the error function is called
\* with the response and its body
HandleResponse(request, response) ==
    LET crawl_response == CrawlResponse(request, response.status, response.headers, "text")
        called == IF is_success(response.status)
                  THEN dispatch(request.success_func, "on_response_success")
                  ELSE dispatch(request.error_func, "on_response_error")
    IN  /\ handler' = [kind |-> IF is_success(response.status) THEN "success" ELSE "error",
                       callee |-> called[Len(called)], args |-> <<crawl_response>>]
        /\ cycle' = [cycle EXCEPT !.get_status = response.status, !.invoked = @ \o called]
        /\ redirect_owed' = redirect_owed \ {request.url}
        /\ crawl_owed' = {owed \in crawl_owed : owed.url # request.url}
        /\ pc' = "handler"

\* Crawler._run after the GET: goto has returned and its response is handled
GetReturns ==
    /\ pc = "get_goto"
    /\ navigation = "finished"
    /\ HandleResponse(next_request, navigation_response)
    /\ navigation' = "none"
    /\ navigation_response' = NoMessage
    /\ NoFrontierCall
    /\ page_call' = NoPageCall
    /\ UNCHANGED <<call, page_vars, config_vars, hooks,
                   running, stop_initiated, next_request, send_head_request,
                   aborted_request, last_request, last_response, intercepted, on_wire,
                   in_flight>>

\* Crawler._run after the GET: goto has raised and the error leaves start()
GetRaises ==
    /\ pc = "get_goto"
    /\ navigation \in {"page_error", "timeout_error"}
    /\ pc' = "raised"
    /\ navigation' = "none"
    /\ in_flight' = in_flight - 1
    /\ NoFrontierCall
    /\ page_call' = NoPageCall
    /\ UNCHANGED <<call, page_vars, config_vars, hooks,
                   running, stop_initiated, next_request, send_head_request,
                   aborted_request, last_request, last_response, handler, intercepted,
                   on_wire, navigation_response, cycle, redirect_owed, crawl_owed>>

\* the user code returns: after on_start the loop is entered, after a
\* redirect, success or error function the loop goes on, after on_stop
\* start() closes the current page and the browser, clears its flags and
\* returns; closing a current page that close_page has closed already raises
\* a PageError that leaves start()
HandlerReturns ==
    /\ pc = "handler"
    /\ handler' = NoHandler
    /\ IF handler.kind = "on_stop" /\ is_open(current_page.id)
       THEN /\ browser_pages' = <<>>
            /\ running' = FALSE
            /\ stop_initiated' = FALSE
            /\ pc' = "returned"
            /\ UNCHANGED in_flight
       ELSE IF handler.kind = "on_stop"
       THEN /\ pc' = "raised"
            /\ UNCHANGED <<browser_pages, running, stop_initiated, in_flight>>
       ELSE /\ pc' = "run"
            /\ in_flight' = IF handler.kind = "on_start" THEN in_flight ELSE in_flight - 1
            /\ UNCHANGED <<browser_pages, running, stop_initiated>>
    /\ NoFrontierCall
    /\ page_call' = NoPageCall
    /\ UNCHANGED <<call, current_page, config_vars, hooks,
                   next_request, send_head_request, aborted_request, last_request,
                   last_response, browser_vars, cycle, redirect_owed, crawl_owed>>

\* an exception of the user code after which one more request is dequeued
HandlerRaises_dequeuing ==
    /\ pc = "handler"
    /\ handler' = NoHandler
    /\ pc' = "raised"
    /\ in_flight' = IF handler.kind \in {"on_start", "on_stop"} THEN in_flight
                    ELSE in_flight - 1
    /\ FrontierGet
    /\ page_call' = NoPageCall
    /\ UNCHANGED <<call, page_vars, config_vars, hooks,
                   running, stop_initiated, next_request, send_head_request,
                   aborted_request, last_request, last_response, browser_vars, cycle,
                   redirect_owed, crawl_owed>>

\* the user code raises: the exception leaves start()
HandlerRaises ==
    /\ pc = "handler"
    /\ handler' = NoHandler
    /\ pc' = "raised"
    /\ in_flight' = IF handler.kind \in {"on_start", "on_stop"} THEN in_flight
                    ELSE in_flight - 1
    /\ NoFrontierCall
    /\ page_call' = NoPageCall
    /\ UNCHANGED <<call, page_vars, config_vars, hooks,
                   running, stop_initiated, next_request, send_head_request,
                   aborted_request, last_request, last_response, browser_vars, cycle,
                   redirect_owed, crawl_owed>>

\* the operations of the crawler that work on the active browser page
PageOperations ==
    {"click", "click_and_wait", "close_page", "double_click", "evaluate", "find_element",
     "get_current_page", "get_pages", "get_title", "get_url", "select", "switch_to_page",
     "type", "wait_for_selector", "wait_for_timeout"}

\* the operation begins with _check_if_crawler_running (double_click through
\* click); evaluate and get_current_page go to the page at once
checks_if_crawler_running(operation) == operation \notin {"evaluate", "get_current_page"}

\* Crawler._page: None until start() takes the first page of the launched
\* browser; closed by start() before it returns, or by close_page
page ==
    IF pc = "constructed" THEN None
    ELSE IF pc = "returned" \/ ~is_open(current_page.id) THEN "closed"
    ELSE "open"

\* the page indexes user code passes
PageIndexes == (0 - MaxPages - 1)..MaxPages

\* the arguments of a page operation and what the page holds for it: the
\* index of the BrowserPage passed, whether the selector matches an element
\* (for wait_for_selector: within the timeout), whether the navigation that
\* is waited for ends within the timeout
PageInputs(operation) ==
    IF operation \in {"switch_to_page", "close_page"}
    THEN {[NoPageInput EXCEPT !.index = index] : index \in PageIndexes}
    ELSE IF operation = "click_and_wait"
    THEN {[NoPageInput EXCEPT !.found = found, !.navigated = navigated] :
             found \in BOOLEAN, navigated \in BOOLEAN}
    ELSE IF operation \in {"click", "double_click", "evaluate", "find_element", "select",
                           "type", "wait_for_selector"}
    THEN {[NoPageInput EXCEPT !.found = found] : found \in BOOLEAN}
    ELSE {NoPageInput}

\* open_pages[index] as Python evaluates it: the position (from 1) of the
\* page, a negative index counting from the end; 0 for an IndexError
list_position(open_pages, index) ==
    IF 0 <= index /\ index < Len(open_pages) THEN index + 1
    ELSE IF index < 0 /\ 0 - index <= Len(open_pages) THEN Len(open_pages) + index + 1
    ELSE 0

\* the sequence without the item at a position
remove_at(seq, position) ==
    SubSeq(seq, 1, position - 1) \o SubSeq(seq, position + 1, Len(seq))

\* a close_page that closes the last page too
close_page_last_too(open_pages, current, input) ==
    LET position == list_position(open_pages, input.index)
    IN  IF position = 0
        THEN [outcome |-> "IndexError", pages |-> open_pages, current |-> current]
        ELSE [outcome |-> "returned", pages |-> remove_at(open_pages, position),
              current |-> current]

\* Crawler.close_page after the running check
close_page(open_pages, current, input) ==
    LET position == list_position(open_pages, input.index)
    IN  IF Len(open_pages) = 1
        THEN [outcome |-> "ValueError", pages |-> open_pages, current |-> current]
        ELSE IF position = 0
        THEN [outcome |-> "IndexError", pages |-> open_pages, current |-> current]
        ELSE [outcome |-> "returned", pages |-> remove_at(open_pages, position),
              current |-> current]

\* Crawler.switch_to_page after the running check
switch_to_page(open_pages, current, input) ==
    LET position == list_position(open_pages, input.index)
    IN  IF position = 0
        THEN [outcome |-> "NoSuchPageError", pages |-> open_pages, current |-> current]
        ELSE [outcome |-> "returned", pages |-> open_pages,
              current |-> [id |-> open_pages[position], index |-> input.index]]

\* Crawler.click (and double_click through it) after the running check:
\* the PageError of a selector without a match becomes NoSuchElementError
click(input) == IF input.found THEN "returned" ELSE "NoSuchElementError"

\* Crawler.click_and_wait after the running check: asyncio.wait gathers the
\* click and the wait for the navigation and keeps their exceptions in the
\* tasks, so the call returns when both have ended, whatever their end
click_and_wait(input) == "returned"

\* Crawler.evaluate, and select and type after the running check: the
\* ElementHandleError of a selector without a match becomes
\* NoSuchElementError
query_selector_eval(input) == IF input.found THEN "returned" ELSE "NoSuchElementError"

\* a wait that returns when the timeout is over
wait_for_selector_silent(input) == "returned"

\* Crawler.wait_for_selector after the running check: the TimeoutError of
\* pyppeteer becomes WaitTimeoutError
wait_for_selector(input) == IF input.found THEN "returned" ELSE "WaitTimeoutError"

\* a page operation on a launched browser, after the running check: what
\* the call ends with, the open pages and the current page afterwards.
\* close_page, get_pages and switch_to_page ask the browser for its pages;
\* the other operations call the current page, which fails when that page
\* is closed
page_operation(operation, input) ==
    LET same(outcome) == [outcome |-> outcome, pages |-> browser_pages,
                          current |-> current_page]
    IN  IF operation = "close_page" THEN close_page(browser_pages, current_page, input)
        ELSE IF operation = "switch_to_page"
        THEN switch_to_page(browser_pages, current_page, input)
        ELSE IF operation = "get_pages" THEN same("returned")
        ELSE IF page = "closed" THEN same("page")
        ELSE IF operation \in {"click", "double_click"} THEN same(click(input))
        ELSE IF operation = "click_and_wait" THEN same(click_and_wait(input))
        ELSE IF operation \in {"evaluate", "select", "type"}
        THEN same(query_selector_eval(input))
        ELSE IF operation = "wait_for_selector" THEN same(wait_for_selector(input))
        ELSE same("returned")

\* user code calls a page operation before start(), from a hook or a
\* callback, or after start() has ended: CrawlerNotRunningError from the
\* check, AttributeError from a call on the None page, or the operation
\* goes to the browser
PageOperation(operation, input) ==
    /\ pc \in {"constructed", "handler", "returned", "raised"}
    /\ LET done == IF checks_if_crawler_running(operation) /\ ~running
                   THEN [outcome |-> "CrawlerNotRunningError", pages |-> browser_pages,
                         current |-> current_page]
                   ELSE IF page = None
                   THEN [outcome |-> "AttributeError", pages |-> browser_pages,
                         current |-> current_page]
                   ELSE page_operation(operation, input)
       IN  /\ page_call' = [operation |-> operation, input |-> input,
                            outcome |-> done.outcome]
           /\ browser_pages' = done.pages
           /\ current_page' = done.current
    /\ NoFrontierCall
    /\ UNCHANGED <<call, config_vars, crawler_vars, browser_vars, run_vars>>

\* the identifier of a page that is neither open nor the current page
new_page_id ==
    CHOOSE id \in 1..(MaxPages + 1) :
        /\ ~is_open(id)
        /\ current_page.id # id
        /\ \A smaller \in 1..(id - 1) : is_open(smaller) \/ current_page.id = smaller

\* the page in front opens another page (a link with target="_blank", or
\* window.open) while user code works on it
PageOpened ==
    /\ pc = "handler"
    /\ Len(browser_pages) < MaxPages
    /\ browser_pages' = Append(browser_pages, new_page_id)
    /\ NoFrontierCall
    /\ page_call' = NoPageCall
    /\ UNCHANGED <<call, current_page, config_vars, crawler_vars, browser_vars, run_vars>>

\* a crawler that is constructed, started and run to the end of start()
Next ==
    \/ Start
    \/ Stop
    \/ \E request \in CrawlArguments : Crawl(request)
    \/ RunLoop
    \/ OnRequest
    \/ \E status \in Statuses : OnResponse(status)
    \/ \E target \in RedirectTargets : OnRedirectResponse(target)
    \/ ConnectionError
    \/ ProbeReturns
    \/ ProbeRaises
    \/ GetReturns
    \/ GetRaises
    \/ HandlerReturns
    \/ HandlerRaises

Spec == Init /\ [][Next]_vars

\* a crawler that filters duplicates and takes requests from every site
TerminationInit ==
    /\ Init
    /\ filter_duplicate_requests
    /\ ~filter_offsite_requests
    /\ allowed_domains = <<>>

\* the steps of the crawler, the browser and the server in a run, the user
\* code returning from every hook and callback it is called in
Progress ==
    \/ Start
    \/ RunLoop
    \/ OnRequest
    \/ \E status \in Statuses : OnResponse(status)
    \/ \E target \in RedirectTargets : OnRedirectResponse(target)
    \/ ConnectionError
    \/ ProbeReturns
    \/ ProbeRaises
    \/ GetReturns
    \/ GetRaises
    \/ HandlerReturns

\* a run in which no hook and no callback raises
TerminationNext ==
    \/ Progress
    \/ Stop
    \/ \E request \in CrawlArguments : Crawl(request)

\* start() is called, the event loop runs every coroutine that is ready, the
\* server answers every request it gets or the connection fails, and every
\* hook and callback returns
TerminationSpec == TerminationInit /\ [][TerminationNext]_vars /\ WF_vars(Progress)

\* the URL of a resource that a page loaded earlier, or opened by the user
\* code, asks for while the crawler navigates
U_resource == Url(H_ex, "/resource", <<>>, "")

\* the browser reports a request that is no navigation request while start()
\* waits for a navigation; Crawler._on_request stores it as the last request
\* before it looks at it
SubresourceRequest ==
    /\ pc \in {"probe_goto", "get_goto"}
    /\ \E headers \in RawHeaders :
           last_request' = [RawRequest(U_resource, <<>>, headers) EXCEPT !.is_navigation = FALSE]
    /\ NoFrontierCall
    /\ page_call' = NoPageCall
    /\ UNCHANGED <<call, page_vars, config_vars, hooks,
                   pc, running, stop_initiated, next_request, send_head_request,
                   aborted_request, last_response, handler, browser_vars, run_vars>>

\* the browser reports the response to such a request while start() waits
\* for a navigation; Crawler._on_response stores it as the last response
SubresourceResponse ==
    /\ pc \in {"probe_goto", "get_goto"}
    /\ last_response' = RawResponse(U_resource, 200, {<<"server", "httpserver">>})
    /\ NoFrontierCall
    /\ page_call' = NoPageCall
    /\ UNCHANGED <<call, page_vars, config_vars, hooks,
                   pc, running, stop_initiated, next_request, send_head_request,
                   aborted_request, last_request, handler, browser_vars, run_vars>>

\* a run during which the browser reports the requests and responses of
\* other resources as well
EventsNext ==
    \/ Next
    \/ SubresourceRequest
    \/ SubresourceResponse

EventsSpec == TerminationInit /\ [][EventsNext]_vars

\* a crawler with the default configuration and without seed requests
LifecycleInit ==
    /\ Init
    /\ seed_requests = <<>>
    /\ filter_duplicate_requests
    /\ ~filter_offsite_requests
    /\ allowed_domains = <<>>

\* start() on an empty frontier, with user code that calls stop() and the
\* page operations
LifecycleNext ==
    \/ Start
    \/ Stop
    \/ RunLoop
    \/ HandlerReturns
    \/ HandlerRaises
    \/ \E operation \in PageOperations :
           \E input \in PageInputs(operation) : PageOperation(operation, input)
    \/ PageOpened

LifecycleSpec == LifecycleInit /\ [][LifecycleNext]_vars

\* ------------------------------------------------------------------------
\* CrawlRequest.merge on its own
\* ------------------------------------------------------------------------

\* a crawler with the default configuration that is not started, and a
\* method about to be called on its own
FunctionInit(calls) ==
    /\ seed_requests = <<>>
    /\ filter_duplicate_requests = TRUE
    /\ filter_offsite_requests = FALSE
    /\ allowed_domains = <<>>
    /\ requests = <<>>
    /\ url_hashes = {}
    /\ admitted_urls = {}
    /\ outstanding = bag_of(<<>>)
    /\ op = "init"
    /\ arg = NoRequest
    /\ result = FALSE
    /\ returned = NoRequest
    /\ returned_unadmitted = FALSE
    /\ replay = [exact |-> TRUE, added |-> <<>>]
    /\ pc = "constructed"
    /\ running = FALSE
    /\ stop_initiated = FALSE
    /\ next_request = NoRequest
    /\ send_head_request = FALSE
    /\ aborted_request = FALSE
    /\ last_request = NoMessage
    /\ last_response = NoMessage
    /\ handler = NoHandler
    /\ hooks = <<>>
    /\ intercepted = NoMessage
    /\ on_wire = NoMessage
    /\ navigation = "none"
    /\ navigation_response = NoMessage
    /\ cycle = NoCycle
    /\ in_flight = 0
    /\ redirect_owed = {}
    /\ crawl_owed = {}
    /\ browser_pages = <<>>
    /\ current_page = NoPage
    /\ page_call = NoPageCall
    /\ call \in calls

\* the priorities and the callbacks of the requests that are merged: 0 is
\* the default priority, None the default callback
MergePriorities == {0, 1, 5}
MergeFunctions == {None, "func", "other_func"}

\* the requests that are merged
MergeRequests ==
    {CrawlRequest(url, priority, redirect_func, success_func, error_func) :
        url \in {U_ex_a, U_sub}, priority \in MergePriorities,
        redirect_func \in MergeFunctions, success_func \in MergeFunctions,
        error_func \in MergeFunctions}

\* request.merge(other_request) is about to be called
MergeInit ==
    FunctionInit({[function |-> "merge", args |-> <<request, other_request>>,
                   returned |-> FALSE, value |-> NoRequest] :
                      request \in MergeRequests, other_request \in MergeRequests})

\* CrawlRequest.merge is called and returns: it assigns to no field of the
\* two requests
Merge ==
    /\ call.function = "merge"
    /\ ~call.returned
    /\ call' = [call EXCEPT !.returned = TRUE, !.value = merge(call.args[1], call.args[2])]
    /\ UNCHANGED <<config_vars, frontier_vars, history_vars, crawler_vars, browser_vars,
                   run_vars, page_vars, page_call>>

MergeNext == Merge

MergeSpec == MergeInit /\ [][MergeNext]_vars

\* ------------------------------------------------------------------------
\* CrawlFrontier._generate_url_hash on its own
\* ------------------------------------------------------------------------

\* the query parameters of the URLs: 1=1, 1=2, 2=2 and 2= (a blank value)
HashParams == {Param(1, 1), Param(1, 2), Param(2, 2), Param(2, 0)}

\* the query strings of up to MaxParams parameters
HashQueries == UNION {[1..n -> HashParams] : n \in 0..MaxParams}

\* the URLs whose fingerprint is taken
HashUrls ==
    {Url(H_ex, path, query, fragment) :
        path \in {"/test", "/other"}, query \in HashQueries, fragment \in {"", "fragment"}}
        \cup {U_sub, U_notex}

\* _generate_url_hash is about to be called on each of two URLs
HashInit ==
    FunctionInit({[function |-> "generate_url_hash", args |-> <<url, other_url>>,
                   returned |-> FALSE, value |-> <<NoMessage, NoMessage>>] :
                      url \in HashUrls, other_url \in HashUrls})

\* CrawlFrontier._generate_url_hash is called on the i-th URL and returns
GenerateUrlHash(i) ==
    /\ call.function = "generate_url_hash"
    /\ call.value[i] = NoMessage
    /\ call' = [call EXCEPT !.value[i] = generate_url_hash(call.args[i]),
                            !.returned = call.value[3 - i] # NoMessage]
    /\ UNCHANGED <<config_vars, frontier_vars, history_vars, crawler_vars, browser_vars,
                   run_vars, page_vars, page_call>>

HashNext == \E i \in 1..2 : GenerateUrlHash(i)

HashSpec == HashInit /\ [][HashNext]_vars

\* ------------------------------------------------------------------------
\* Construction: CrawlerConfiguration.__init__ and Crawler.__init__
\* ------------------------------------------------------------------------

\* "e.i" plays example.invalid
H_inv == <<"e", ".", "i">>

\* an allowed-domain string as the caller writes it: with or without a
\* protocol, a host, with or without a path
DomainString(protocol, host, path) == [protocol |-> protocol, host |-> host, path |-> path]

\* the strings the model passes as allowed domains: e.c, https://s.e.c/p,
\* e.i, https://e.i and exc
DomainStrings ==
    {DomainString("", H_ex, ""), DomainString("https://", H_sub, "/p"),
     DomainString("", H_inv, ""), DomainString("https://", H_inv, ""),
     DomainString("", H_exc, "")}

\* the lists of up to MaxDomains allowed-domain strings
DomainStringLists == UNION {[1..n -> DomainStrings] : n \in 0..MaxDomains}

\* the top-level domains that the list of public suffixes knows
KnownTlds == {<<"c">>}

\* the part of a host name after its last dot
last_label(host) ==
    LET dots == {i \in 1..Len(host) : host[i] = "."}
        last_dot == IF dots = {} THEN 0 ELSE CHOOSE i \in dots : \A j \in dots : j <= i
    IN  SubSeq(host, last_dot + 1, Len(host))

\* tld.get_tld(domain, as_object=True, fix_protocol=True): the protocol is
\* added when it is missing and the URL is parsed; the result carries the
\* parsed URL when the host ends with a known top-level domain, otherwise
\* TldDomainNotFound is raised
get_tld(domain_string) ==
    LET fixed == IF domain_string.protocol = ""
                 THEN [domain_string EXCEPT !.protocol = "https://"]
                 ELSE domain_string
    IN  IF last_label(fixed.host) \in KnownTlds
        THEN [raised |-> "none", hostname |-> fixed.host]
        ELSE [raised |-> "TldDomainNotFound", hostname |-> <<>>]

NoConfiguration == [none |-> TRUE]

\* a constructor that leaves out the strings it can extract no domain from
CrawlerConfiguration_skipping_invalid(seeds, filter_duplicates, filter_offsite, domains, hostnames) ==
    [outcome |-> "returned",
     configuration |-> [seed_requests |-> seeds,
                        filter_duplicate_requests |-> filter_duplicates,
                        filter_offsite_requests |-> filter_offsite,
                        allowed_domains |->
                            SelectSeq(hostnames \o [i \in 1..Len(domains) |->
                                                        get_tld(domains[i]).hostname],
                                      LAMBDA hostname : hostname # <<>>)],
     domain |-> NoConfiguration]

\* CrawlerConfiguration.__init__, from the point where _allowed_domains holds
\* the host names of the strings gone through so far: each string left is
\* handed to get_tld and its host name appended; TldDomainNotFound becomes
\* ValueError, which leaves the constructor, so that no object is returned
RECURSIVE CrawlerConfiguration(_, _, _, _, _)
CrawlerConfiguration(seeds, filter_duplicates, filter_offsite, domains, hostnames) ==
    IF domains = <<>>
    THEN [outcome |-> "returned",
          configuration |-> [seed_requests |-> seeds,
                             filter_duplicate_requests |-> filter_duplicates,
                             filter_offsite_requests |-> filter_offsite,
                             allowed_domains |-> hostnames],
          domain |-> NoConfiguration]
    ELSE LET found == get_tld(Head(domains))
         IN  IF found.raised = "TldDomainNotFound"
             THEN [outcome |-> "ValueError", configuration |-> NoConfiguration,
                   domain |-> Head(domains)]
             ELSE CrawlerConfiguration(seeds, filter_duplicates, filter_offsite,
                      Tail(domains), Append(hostnames, found.hostname))

\* the arguments configure() passes to CrawlerConfiguration
ConfigureCalls ==
    {[function |-> "configure", args |-> <<seeds, filter_duplicates, filter_offsite, domains>>,
      returned |-> FALSE, value |-> NoConfiguration] :
         seeds \in {<<>>, <<R_a, R_b>>}, filter_duplicates \in BOOLEAN,
         filter_offsite \in BOOLEAN, domains \in DomainStringLists}

\* a crawler whose constructor is about to run: it has no configuration, no
\* frontier and no browser
ConstructInit ==
    /\ seed_requests = <<>>
    /\ filter_duplicate_requests = TRUE
    /\ filter_offsite_requests = FALSE
    /\ allowed_domains = <<>>
    /\ requests = <<>>
    /\ url_hashes = {}
    /\ admitted_urls = {}
    /\ outstanding = bag_of(<<>>)
    /\ op = "init"
    /\ arg = NoRequest
    /\ result = FALSE
    /\ returned = NoRequest
    /\ returned_unadmitted = FALSE
    /\ replay = [exact |-> TRUE, added |-> <<>>]
    /\ pc = "new"
    /\ running = FALSE
    /\ stop_initiated = FALSE
    /\ next_request = NoRequest
    /\ send_head_request = FALSE
    /\ aborted_request = FALSE
    /\ last_request = NoMessage
    /\ last_response = NoMessage
    /\ handler = NoHandler
    /\ hooks = <<>>
    /\ intercepted = NoMessage
    /\ on_wire = NoMessage
    /\ navigation = "none"
    /\ navigation_response = NoMessage
    /\ cycle = NoCycle
    /\ in_flight = 0
    /\ redirect_owed = {}
    /\ crawl_owed = {}
    /\ browser_pages = <<>>
    /\ current_page = NoPage
    /\ page_call = NoPageCall
    /\ call \in ConfigureCalls

\* Crawler.__init__: configure() constructs the configuration; when that
\* raises, the exception leaves the constructor of the crawler at once;
\* otherwise the frontier is constructed from the configuration and the
\* fields of the crawler are set
Construct ==
    /\ pc = "new"
    /\ call.function = "configure"
    /\ LET constructed == CrawlerConfiguration(call.args[1], call.args[2], call.args[3],
                                               call.args[4], <<>>)
       IN  /\ call' = [call EXCEPT !.returned = TRUE, !.value = constructed]
           /\ IF constructed.outcome = "ValueError"
              THEN /\ pc' = "raised"
                   /\ UNCHANGED <<config_vars, frontier_vars, history_vars>>
              ELSE /\ pc' = "constructed"
                   /\ seed_requests' = constructed.configuration.seed_requests
                   /\ filter_duplicate_requests' =
                          constructed.configuration.filter_duplicate_requests
                   /\ filter_offsite_requests' =
                          constructed.configuration.filter_offsite_requests
                   /\ allowed_domains' = constructed.configuration.allowed_domains
                   /\ requests' = (construct_frontier(<<>>, {}, seed_requests).requests)'
                   /\ url_hashes' = (construct_frontier(<<>>, {}, seed_requests).url_hashes)'
                   /\ admitted_urls' =
                          (LET seeds == admitted_seeds(<<>>, {}, seed_requests)
                           IN  {seeds[i].url : i \in 1..Len(seeds)})'
                   /\ outstanding' = (bag_of(admitted_seeds(<<>>, {}, seed_requests)))'
                   /\ UNCHANGED <<op, arg, result, returned, returned_unadmitted, replay>>
    /\ UNCHANGED <<running, stop_initiated, next_request, send_head_request, aborted_request,
                   last_request, last_response, handler, hooks>>
    /\ UNCHANGED <<browser_vars, run_vars, page_vars, page_call>>

ConstructNext == Construct

ConstructSpec == ConstructInit /\ [][ConstructNext]_vars

\* ------------------------------------------------------------------------
\* Properties of the frontier
\* ------------------------------------------------------------------------

\* the parameters of a query as a bag
query_bag(query) == [p \in {query[i] : i \in 1..Len(query)} |-> count(p, query)]

\* two URLs that differ at most in the order of their query parameters and
\* in their fragment
same_normalized_url(u, v) ==
    /\ u.host = v.host
    /\ u.path = v.path
    /\ query_bag(u.query) = query_bag(v.query)

\* C1: with duplicate filtering enabled, add_request of a request whose
\* normalized URL (query parameters sorted, fragment dropped) equals that of
\* a request admitted before returns False and leaves the pending requests
\* as they were, also when the earlier request has been dequeued already.
C1_DuplicateRejected ==
    [][(/\ op' = "add_request"
        /\ filter_duplicate_requests
        /\ \E u \in admitted_urls : same_normalized_url(u, arg'.url))
       => (result' = FALSE /\ requests' = requests)]_vars

\* a request with a different URL spelling than the admitted and already
\* dequeued one was rejected as its duplicate
C1_Witness ==
    /\ op = "add_request"
    /\ filter_duplicate_requests
    /\ result = FALSE
    /\ requests = <<>>
    /\ arg.url \notin admitted_urls
    /\ \E u \in admitted_urls : same_normalized_url(u, arg.url)

\* C2: get_next_request on a non-empty frontier returns one of the pending
\* requests, and its priority is greater than or equal to the priority of
\* every pending request.
C2_HighestPriorityFirst ==
    [][(op' = "get_next_request" /\ requests # <<>>)
       => (/\ \E i \in 1..Len(requests) : requests[i] = returned'
           /\ \A i \in 1..Len(requests) : returned'.priority >= requests[i].priority)]_vars

\* of pending priorities 5, 1, 5, 9 the 9 was returned first
C2_Witness ==
    /\ op = "get_next_request"
    /\ returned # NoRequest
    /\ returned.priority = 9
    /\ Len(requests) = 3
    /\ Cardinality({i \in 1..3 : requests[i].priority = 5}) = 2
    /\ Cardinality({i \in 1..3 : requests[i].priority = 1}) = 1

\* C3: the admitted requests that have not been returned yet are exactly the
\* pending ones (so every admission is pending or was returned once), and
\* get_next_request never returned a request without an outstanding admission.
C3_AdmittedPendingOrReturnedOnce ==
    /\ outstanding = bag_of(requests)
    /\ ~returned_unadmitted

\* a request admitted twice: one admission returned, the other still pending
C3_Witness ==
    /\ op = "get_next_request"
    /\ returned # NoRequest
    /\ returned \in DOMAIN outstanding
    /\ Len(requests) >= 2

\* string ends with suffix
ends_with(string, suffix) ==
    /\ Len(suffix) <= Len(string)
    /\ SubSeq(string, Len(string) - Len(suffix) + 1, Len(string)) = suffix

\* the match rule of the specification: the domain is an allowed domain or a
\* subdomain of one
domain_allowed(string) ==
    \E i \in 1..Len(allowed_domains) :
        string = allowed_domains[i] \/ ends_with(string, <<".">> \o allowed_domains[i])

\* C4: with off-site filtering enabled, add_request admits a request that is
\* not a duplicate if and only if its domain equals an allowed domain or
\* ends with "." followed by an allowed domain.
C4_OffsiteRule ==
    [][(/\ op' = "add_request"
        /\ filter_offsite_requests
        /\ ~(filter_duplicate_requests /\ generate_url_hash(arg'.url) \in url_hashes))
       => (result' = TRUE <=> domain_allowed(domain(arg')))]_vars

\* C14: with duplicate filtering disabled, add_request of a request that was
\* admitted before, pending or dequeued since, returns True and adds one
\* more pending copy of it, so that it is pending once per admission that
\* was not dequeued.
C14_DuplicateAdmittedWhenFilterDisabled ==
    [][(/\ op' = "add_request"
        /\ ~filter_duplicate_requests
        /\ arg'.url \in admitted_urls)
       => /\ result' = TRUE
          /\ bag_of(requests') = bag_add(bag_of(requests), arg')
          /\ outstanding' = bag_of(requests')]_vars

\* a seed request was dequeued and then admitted again
C14_Witness ==
    /\ ~filter_duplicate_requests
    /\ seed_requests = <<R_a, R_b>>
    /\ op = "add_request"
    /\ arg = R_a
    /\ result = TRUE
    /\ requests = <<R_a>>

\* C15: has_next_request returns True if and only if a request is pending,
\* and get_next_request on an empty frontier returns None and leaves the
\* pending requests and the fingerprints as they were.
C15_HasNextAndEmptyGet ==
    [][/\ op' = "has_next_request"
              => (result' = (Len(requests) >= 1) /\ UNCHANGED frontier_vars)
       /\ (op' = "get_next_request" /\ requests = <<>>)
              => (returned' = NoRequest /\ UNCHANGED frontier_vars)]_vars

\* has_next_request returned True with a single request pending
C15_Witness ==
    /\ op = "has_next_request"
    /\ result = TRUE
    /\ Len(requests) = 1

\* the i-th seed request has the normalized URL of an earlier seed request
\* and duplicates are filtered, or its domain is off-site by the match rule
\* of the specification and off-site requests are filtered
seed_filtered(i) ==
    \/ /\ filter_duplicate_requests
       /\ \E j \in 1..(i - 1) : same_normalized_url(seed_requests[j].url, seed_requests[i].url)
    \/ /\ filter_offsite_requests
       /\ ~domain_allowed(domain(seed_requests[i]))

\* C16: a frontier constructed with seed requests is the frontier that
\* add_request calls for the same requests, in the same order, leave of an
\* empty frontier; a seed request that is normalized-equal to an earlier one
\* or is off-site is not pending after the construction, every other is.
C16_ConstructionIsReplay ==
    /\ replay.exact
           => LET frontier == construct_frontier(<<>>, {}, seed_requests \o replay.added)
              IN  requests = frontier.requests /\ url_hashes = frontier.url_hashes
    /\ op = "init"
           => /\ Len(requests) = Cardinality({i \in 1..Len(seed_requests) : ~seed_filtered(i)})
              /\ \A i \in 1..Len(seed_requests) :
                     seed_filtered(i) <=> count(seed_requests[i], requests) = 0

\* C35: with duplicate filtering enabled the fingerprint set holds the
\* fingerprints of the admitted requests and no other: an add_request that
\* returns False, rejected by the off-site filter included, leaves the
\* pending requests and the fingerprint set as they were.
C35_FingerprintsOfAdmitted ==
    [][(op' = "add_request" /\ filter_duplicate_requests)
       => /\ result' = FALSE => (requests' = requests /\ url_hashes' = url_hashes)
          /\ url_hashes' = {generate_url_hash(url) : url \in admitted_urls'}]_vars

\* C36: add_request raises for no request, a request whose URL has no host
\* while off-site requests are filtered included: it returns True or False.
C36_AddRequestNeverRaises ==
    call.function = "add_request" => (call.returned /\ call.value.raised = "none")

\* ------------------------------------------------------------------------
\* Properties of the crawl loop
\* ------------------------------------------------------------------------

\* C5: in a fetch cycle the first request sent for the dequeued request is a
\* HEAD, a GET is sent only after a HEAD, to the URL of the dequeued request,
\* and only when the probe was answered without a redirect.
C5_ProbeBeforeGet ==
    /\ cycle.sent \in {<<>>, <<"HEAD">>, <<"HEAD", "GET">>}
    /\ Len(cycle.sent) = 2 => cycle.probe = "answered"
    /\ pc = "get_goto" => cycle.probe = "answered"
    /\ (on_wire # NoMessage /\ on_wire.method = "GET")
           => (on_wire.url = next_request.url /\ cycle.probe = "answered")

\* the GET of a request is on its way after its probe was answered
C5_Witness ==
    /\ pc = "get_goto"
    /\ cycle.sent = <<"HEAD", "GET">>
    /\ on_wire # NoMessage
    /\ on_wire.method = "GET"

\* the functions that handle a redirect, a success, an error
redirect_functions == {"redirect_func", "on_request_redirect"}

\* the fetch cycle whose probe was answered with a redirect: once the crawl
\* loop has taken up the failed probe, the redirect function has been called
\* exactly once, no success or error function has been called and no GET has
\* been sent
redirect_cycle_handled ==
    (cycle.probe = "redirected" /\ pc # "probe_goto")
        => /\ Len(cycle.invoked) = 1
           /\ cycle.invoked[1] \in redirect_functions
           /\ cycle.get_status = -1
           /\ \A i \in 1..Len(cycle.sent) : cycle.sent[i] # "GET"

C7_StatusClassification ==
    cycle.get_status # -1
        => /\ Len(cycle.invoked) = 1
           /\ (200 <= cycle.get_status /\ cycle.get_status < 300)
                  => cycle.invoked[1] \in {"success_func", "on_response_success"}
           /\ ~(200 <= cycle.get_status /\ cycle.get_status < 300)
                  => cycle.invoked[1] \in {"error_func", "on_response_error"}

\* a GET answered with 300, the first status above the success range, went
\* to an error function
C7_Witness ==
    /\ cycle.get_status = 300
    /\ cycle.invoked = <<"on_response_error">>

\* the function that has to handle an outcome of a request
expected_function(kind, request) ==
    IF kind = "redirect"
    THEN (IF request.redirect_func # None THEN request.redirect_func ELSE "on_request_redirect")
    ELSE IF kind = "success"
    THEN (IF request.success_func # None THEN request.success_func ELSE "on_response_success")
    ELSE (IF request.error_func # None THEN request.error_func ELSE "on_response_error")

\* C8: for a redirect, a success or an error the callback of the request is
\* called if the request has one, the default hook of the crawler otherwise,
\* and nothing else is called.
C8_HandlerResolution ==
    (pc = "handler" /\ handler.kind \in {"redirect", "success", "error"})
        => /\ cycle.invoked = <<expected_function(handler.kind, next_request)>>
           /\ handler.callee = expected_function(handler.kind, next_request)

\* the callback of a request is running in place of the default hook
C8_Witness ==
    /\ pc = "handler"
    /\ handler.kind = "error"
    /\ next_request.error_func # None
    /\ cycle.invoked = <<"error_func">>

\* C9: a call of stop() leaves the running fetch cycle as it is; once the
\* stop flag is set no request is dequeued and the pending requests stay in
\* the frontier; the loop is left only between fetch cycles.
C9_StopCooperative ==
    [][/\ (stop_initiated' /\ ~stop_initiated)
              => UNCHANGED <<pc, handler, requests, browser_vars, run_vars>>
       /\ stop_initiated
              => \A i \in 1..Len(requests) : count(requests[i], requests') >= count(requests[i], requests)
       /\ (handler'.kind = "on_stop" /\ handler.kind # "on_stop")
              => (pc = "run" /\ in_flight = 0)]_vars

\* stop() was called, the fetch cycle under way was completed and the loop
\* was left with a request still pending
C9_Witness ==
    /\ pc = "handler"
    /\ handler.kind = "on_stop"
    /\ stop_initiated
    /\ cycle.get_status # -1
    /\ requests # <<>>

\* C10: at most one fetch cycle is in flight: a request is dequeued only
\* when no cycle is in flight, and a request that is paused at the hook or
\* on its way to the server belongs to the one cycle in flight.
C10_OneCycleInFlight ==
    /\ in_flight \in {0, 1}
    /\ in_flight = 1 <=> (\/ pc \in {"probe_goto", "get_goto"}
                          \/ (pc = "handler" /\ handler.kind \in {"redirect", "success", "error"}))
    /\ (intercepted # NoMessage \/ on_wire # NoMessage \/ navigation # "none")
           => pc \in {"probe_goto", "get_goto"}
    /\ on_wire # NoMessage => on_wire.url = next_request.url

\* a success function is running while another request is pending
C10_Witness ==
    /\ in_flight = 1
    /\ pc = "handler"
    /\ handler.kind = "success"
    /\ requests # <<>>

crawl_called == pc = "handler" /\ op' = "add_request"
crawl_is_admission ==
    LET added == add_request(requests, url_hashes, arg')
    IN  /\ result' = added.result
        /\ requests' = added.requests
        /\ url_hashes' = added.url_hashes

\* a step in which the crawl loop ends without stop() having been called
loop_exhausted == handler'.kind = "on_stop" /\ handler.kind # "on_stop" /\ ~stop_initiated

C18_StartLifecycle ==
    [][/\ hooks' \in {<<>>, <<"on_start">>, <<"on_start", "on_stop">>}
       /\ op' = "get_next_request" => (hooks = <<"on_start">> /\ hooks' = hooks)
       /\ hooks' = <<"on_start", "on_stop">>
              => \/ hooks' = hooks /\ ~at_loop_head
                 \/ hooks = <<"on_start">> /\ at_loop_head /\ ~loop_condition
       /\ pc' = "returned"
              => (hooks' = <<"on_start", "on_stop">> /\ ~running' /\ ~stop_initiated')]_vars

\* start() has returned from a run without seed requests in which no request
\* was ever dequeued
C18_Witness ==
    /\ pc = "returned"
    /\ seed_requests = <<>>
    /\ next_request = NoRequest
    /\ hooks = <<"on_start", "on_stop">>
    /\ ~running
    /\ ~stop_initiated

\* the extra headers of a crawl request: CrawlRequest.__init__ takes none,
\* so the requests of the model carry none
extra_headers(request) ==
    IF "headers" \in DOMAIN request THEN request.headers ELSE {}

\* base overlaid with extra: the headers of extra, and those of base whose
\* name extra does not give
overlay(base, extra) ==
    extra \cup {h \in base : \A e \in extra : e[1] # h[1]}

\* a step in which the hook handles a request that does not continue a
\* redirect
hook_continues ==
    /\ intercepted # NoMessage
    /\ intercepted' = NoMessage
    /\ ~is_redirect_continuation(intercepted)

\* C19: in the probe and in the GET phase the hook continues the request
\* with the headers of the browser overlaid with the extra headers of the
\* crawl request, so the request goes out with them.
C19_HeadersOverlaid ==
    [][hook_continues
       => /\ on_wire' # NoMessage
          /\ on_wire'.method = (IF send_head_request THEN "HEAD" ELSE "GET")
          /\ on_wire'.headers = overlay(intercepted.headers, extra_headers(next_request))]_vars

\* C20: each of the page operations, called before start() or after
\* start() has returned, raises CrawlerNotRunningError and does not reach
\* the browser page.
C20_NotRunningError ==
    [][(page_call'.operation \in PageOperations /\ pc \in {"constructed", "returned"})
       => page_call'.outcome = "CrawlerNotRunningError"]_vars

\* a step in which the probe ends with a redirect and the redirect function
\* is called
redirect_handled ==
    /\ pc = "probe_goto"
    /\ pc' = "handler"
    /\ handler'.kind = "redirect"

\* a step in which the redirect function returns
redirect_function_returns ==
    /\ pc = "handler"
    /\ handler.kind = "redirect"
    /\ pc' = "run"

\* C28: on a probe redirect the redirect function is called first and the
\* request for the redirect target is handed to add_request only after it
\* has returned, so that the target is not admitted while the function runs.
C28_HandlerBeforeAdmission ==
    [][/\ redirect_handled => op' # "add_request"
       /\ redirect_function_returns => (op' = "add_request" /\ arg' = handler.args[2])]_vars

\* C29: the request for the redirect target goes through add_request: when
\* duplicates are filtered and its URL is normalized-equal to a URL admitted
\* before, or when off-site requests are filtered and its domain is neither
\* an allowed domain nor a subdomain of one, it is rejected and the pending
\* requests stay as they were, so that it is not fetched; and the redirect
\* function is called once, with the response to the original request.
C29_RedirectAdmission ==
    [][redirect_handled
       => LET target == handler'.args[2]
          IN  /\ ((op' = "add_request" /\ arg' = target)
                   /\ (\/ /\ filter_duplicate_requests
                          /\ \E u \in admitted_urls : same_normalized_url(u, target.url)
                       \/ /\ filter_offsite_requests
                          /\ ~domain_allowed(domain(target))))
                     => (result' = FALSE /\ requests' = requests)
              /\ Len(cycle'.invoked) = 1
              /\ handler'.args[1].request = next_request]_vars

\* C30: the request for the redirect target has the priority, the redirect,
\* success and error functions and the extra headers of the original
\* request.
C30_RedirectCarriesMetadata ==
    (pc = "handler" /\ handler.kind = "redirect")
        => LET target == handler.args[2]
           IN  /\ target.priority = next_request.priority
               /\ target.redirect_func = next_request.redirect_func
               /\ target.success_func = next_request.success_func
               /\ target.error_func = next_request.error_func
               /\ "headers" \in DOMAIN target
               /\ target.headers = next_request.headers

probe_fails ==
    /\ pc = "probe_goto"
    /\ pc' # "probe_goto"
    /\ navigation \in {"page_error", "timeout_error"}

\* the hook has aborted the continuation of a redirect in the probe of this
\* cycle: the HEAD was answered with a redirect and the request that follows
\* it has been through the hook
hook_aborted_in_probe ==
    /\ cycle.probe = "redirected"
    /\ intercepted = NoMessage
    /\ cycle.aborted # NoMessage
    /\ is_redirect_continuation(cycle.aborted)

\* C31: a failure of the probe navigation is taken as a redirect, and the
\* redirect function called, if and only if the hook has aborted the
\* continuation of a redirect in that probe; every other failure leaves the
\* crawl loop and no redirect, success or error function is called for the
\* request.
C31_ProbeFailure ==
    [][probe_fails
       => IF hook_aborted_in_probe
          THEN /\ pc' = "handler"
               /\ handler'.kind = "redirect"
               /\ Len(cycle'.invoked) = 1
          ELSE /\ pc' = "raised"
               /\ handler' = NoHandler
               /\ cycle'.invoked = <<>>]_vars

\* the probe of a request ended with a failure that was no aborted redirect
\* and the error has left start()
C31_Witness ==
    /\ pc = "raised"
    /\ cycle.sent = <<"HEAD">>
    /\ cycle.probe = "none"
    /\ ~aborted_request
    /\ cycle.invoked = <<>>
    /\ next_request # NoRequest

\* C32: an exception that a redirect, success or error function raises
\* leaves the crawl loop: the step dequeues nothing, after it no request is
\* dequeued any more, and the pending requests stay in the frontier.
C32_HandlerExceptionPropagates ==
    [][/\ (pc = "handler" /\ handler.kind \in {"redirect", "success", "error"}
              /\ pc' = "raised")
             => (requests' = requests /\ op' # "get_next_request")
       /\ pc = "raised"
             => (pc' = "raised" /\ requests' = requests /\ op' # "get_next_request")]_vars

\* a success, error or redirect function has raised while requests were
\* pending
C32_Witness ==
    /\ pc = "raised"
    /\ cycle.invoked # <<>>
    /\ in_flight = 0
    /\ requests # <<>>
    /\ Len(hooks) = 1

\* C33: each iteration of the loop begins by resetting the state of the
\* cycle: the redirect flag is cleared, the probing flag is set, the request
\* in flight is the one just dequeued, and the last raw request and the last
\* raw response are cleared.
C33_CycleStateReset ==
    [][(at_loop_head /\ pc' = "probe_goto")
       => /\ aborted_request' = FALSE
          /\ send_head_request' = TRUE
          /\ next_request' = returned'
          /\ next_request' # NoRequest
          /\ last_request' = NoMessage
          /\ last_response' = NoMessage]_vars

\* a step in which the hook handles the request that is paused at it
hook_handles ==
    /\ intercepted # NoMessage
    /\ intercepted' = NoMessage
    /\ last_request' = intercepted

\* C34: the hook resolves every request it sees, and once: it aborts the
\* request when it is a navigation request with a redirect chain, and
\* continues it with the overrides otherwise, so that no request stays
\* paused.
C34_HookResolvesEveryRequest ==
    [][hook_handles
       => IF intercepted.is_navigation /\ Len(intercepted.redirect_chain) > 0
          THEN /\ aborted_request'
               /\ navigation' = "page_error"
               /\ on_wire' = on_wire
          ELSE /\ on_wire' # NoMessage
               /\ on_wire'.url = intercepted.url
               /\ navigation' = navigation]_vars

\* C40: when a probe was aborted for a redirect, the request handed to the
\* redirect function has the URL of the aborted request, and the response
\* has the status and the headers of the redirect of that probe, also when
\* the browser reported other requests and responses in between.
C40_RedirectOfThisProbe ==
    (pc = "handler" /\ handler.kind = "redirect")
        => /\ handler.args[2].url = cycle.aborted.url
           /\ handler.args[1].status = cycle.hop.status
           /\ handler.args[1].headers = cycle.hop.headers

\* a step in which a navigation of the fetch cycle ends after the server has
\* answered every request of it: with the response, or with the failure of
\* a redirect continuation that the hook aborted
navigation_answered ==
    /\ pc \in {"probe_goto", "get_goto"}
    /\ pc' # pc
    /\ \/ navigation = "finished"
       \/ navigation = "page_error" /\ aborted_request

\* C37: whatever the server answers to the probe and to the GET, a redirect
\* answered to the GET after a probe without redirect included, the fetch
\* cycle ends with the call of exactly one redirect, success or error
\* function, and the loop goes on.
C37_CycleEndsInOneHandler ==
    [][navigation_answered
       => \/ pc = "probe_goto" /\ pc' = "get_goto"
          \/ /\ pc' = "handler"
             /\ handler'.kind \in {"redirect", "success", "error"}
             /\ Len(cycle'.invoked) = 1]_vars

\* C38: while a redirect, success or error function or on_stop runs, the
\* probing flag is false.
C38_NotProbingInHandler ==
    (pc = "handler" /\ handler.kind \in {"redirect", "success", "error", "on_stop"})
        => ~send_head_request

\* ------------------------------------------------------------------------
\* Properties of the page operations
\* ------------------------------------------------------------------------

\* a step in which user code calls this page operation on a running crawler
\* from a hook or a callback
called_while_running(operation) ==
    /\ page_call'.operation = operation
    /\ pc = "handler"
    /\ running

\* the index is the index of a page that is open
index_of_open_page(index) == 0 <= index /\ index < Len(browser_pages)

\* C21: switch_to_page and close_page, called with an index that is not the
\* index of an open page (too large or negative), raise NoSuchPageError and
\* leave the current page, its index and the open pages as they were
\* (close_page with more than one page open: C22 has the one-page case).
C21_NoSuchPage ==
    [][(/\ \/ called_while_running("switch_to_page")
           \/ called_while_running("close_page") /\ Len(browser_pages) > 1
        /\ ~index_of_open_page(page_call'.input.index))
       => (page_call'.outcome = "NoSuchPageError" /\ UNCHANGED page_vars)]_vars

\* C22: close_page with exactly one page open ends with ValueError and the
\* page stays open, so that at least one page is open all through a run;
\* with more than one page open, close_page closes the page at the given
\* index and no other.
C22_LastPageStaysOpen ==
    [][/\ (called_while_running("close_page") /\ Len(browser_pages) = 1)
              => (page_call'.outcome = "ValueError" /\ UNCHANGED page_vars)
       /\ (/\ called_while_running("close_page")
           /\ Len(browser_pages) > 1
           /\ index_of_open_page(page_call'.input.index))
              => /\ page_call'.outcome = "returned"
                 /\ browser_pages' = remove_at(browser_pages, page_call'.input.index + 1)
                 /\ current_page' = current_page
       /\ pc' \notin {"constructed", "returned"} => Len(browser_pages') >= 1]_vars

\* close_page was refused on the only page that is open, after a second
\* page had been opened and closed
C22_Witness ==
    /\ pc = "handler"
    /\ page_call.operation = "close_page"
    /\ page_call.outcome = "ValueError"
    /\ browser_pages = <<2>>
    /\ current_page.id = 1

\* C23: a waiting operation whose condition does not come true within its
\* timeout ends with its timeout error: wait_for_selector with
\* WaitTimeoutError, click_and_wait with NavigationTimeoutError.
C23_TimeoutErrors ==
    [][/\ (called_while_running("wait_for_selector") /\ page = "open"
               /\ ~page_call'.input.found)
              => page_call'.outcome = "WaitTimeoutError"
       /\ (called_while_running("click_and_wait") /\ page = "open"
               /\ page_call'.input.found /\ ~page_call'.input.navigated)
              => page_call'.outcome = "NavigationTimeoutError"]_vars

\* the operations that take a selector and work on the element it matches
DomOperations == {"click", "double_click", "click_and_wait", "type", "evaluate", "select"}

\* C24: each of click, double_click, click_and_wait, type, evaluate and
\* select ends with NoSuchElementError when its selector matches no element.
C24_NoSuchElement ==
    [][(/\ \E operation \in DomOperations : called_while_running(operation)
        /\ page = "open"
        /\ ~page_call'.input.found)
       => page_call'.outcome = "NoSuchElementError"]_vars

\* C39: during a run, whatever switch_to_page and close_page calls were
\* made, the current page is one of the open pages and the index that
\* get_current_page reports is the position of that page in the list of
\* get_pages.
C39_CurrentPageIsOpenAtIndex ==
    (pc = "handler" /\ running)
        => /\ is_open(current_page.id)
           /\ index_of_open_page(current_page.index)
           /\ browser_pages[current_page.index + 1] = current_page.id

\* ------------------------------------------------------------------------
\* Properties of the construction
\* ------------------------------------------------------------------------

\* the string names a host under a known top-level domain
valid_domain(domain_string) == last_label(domain_string.host) \in KnownTlds

\* C25: the construction of a configuration from a list of allowed-domain
\* strings of which one names no valid host ends with ValueError and gives
\* no configuration object, and the constructor of the crawler ends with it:
\* the crawler has no configuration, no frontier holds a request or a
\* fingerprint, and nothing is fetched.
C25_InvalidDomainRejected ==
    (/\ call.function = "configure"
     /\ call.returned
     /\ \E i \in 1..Len(call.args[4]) : ~valid_domain(call.args[4][i]))
    => /\ call.value.outcome = "ValueError"
       /\ call.value.configuration = NoConfiguration
       /\ ~valid_domain(call.value.domain)
       /\ pc = "raised"
       /\ allowed_domains = <<>>
       /\ requests = <<>>
       /\ url_hashes = {}
       /\ in_flight = 0
       /\ next_request = NoRequest

\* the constructor has raised on a list whose first string is valid and
\* whose second is not, with seed requests given
C25_Witness ==
    /\ call.function = "configure"
    /\ call.returned
    /\ call.args[1] # <<>>
    /\ Len(call.args[4]) = 2
    /\ valid_domain(call.args[4][1])
    /\ ~valid_domain(call.args[4][2])
    /\ call.value.outcome = "ValueError"
    /\ pc = "raised"

\* ------------------------------------------------------------------------
\* Properties of the value objects
\* ------------------------------------------------------------------------

\* the value of a field of A.merge(B): A's if A has one that is not the
\* falsy default, B's otherwise
merged_field(a_field, b_field, default) == IF a_field # default THEN a_field ELSE b_field

\* C12: A.merge(B) returns a new request with A's URL and domain; its
\* priority is A's if that is non-zero and B's otherwise; each of its three
\* callbacks is A's if A has one and B's otherwise; A and B are as before.
C12_Merge ==
    [][(call'.function = "merge" /\ call'.returned /\ ~call.returned)
       => LET a == call.args[1]
              b == call.args[2]
              merged == call'.value
          IN  /\ call'.args = call.args
              /\ merged.url = a.url
              /\ domain(merged) = domain(a)
              /\ merged.priority = merged_field(a.priority, b.priority, 0)
              /\ merged.redirect_func = merged_field(a.redirect_func, b.redirect_func, None)
              /\ merged.success_func = merged_field(a.success_func, b.success_func, None)
              /\ merged.error_func = merged_field(a.error_func, b.error_func, None)]_vars

\* a merge that took the priority and one callback from A, the other two
\* callbacks from B, both requests having a redirect callback
C12_Witness ==
    /\ call.function = "merge"
    /\ call.returned
    /\ call.args[1].url # call.args[2].url
    /\ call.args[1].priority = 5 /\ call.args[2].priority = 1
    /\ call.args[1].redirect_func = "func" /\ call.args[2].redirect_func = "other_func"
    /\ call.args[1].success_func = None /\ call.args[2].success_func = "other_func"
    /\ call.args[1].error_func = None /\ call.args[2].error_func = None
    /\ call.value = CrawlRequest(call.args[1].url, 5, "func", "other_func", None)

\* C13: two URLs that differ only in the order of their query parameters or
\* in their fragment have the same fingerprint.
C13_FingerprintOrderAndFragment ==
    (/\ call.function = "generate_url_hash"
     /\ call.returned
     /\ same_normalized_url(call.args[1], call.args[2]))
        => call.value[1] = call.value[2]

\* the fingerprints of ?1=1&2=2#fragment and ?2=2&1=1 were taken
C13_Witness ==
    /\ call.function = "generate_url_hash"
    /\ call.returned
    /\ call.args = <<U_ex_a, U_ex_b>>
    /\ call.value[1] = call.value[2]

\* the two URLs differ in their host, in their path or in their query
\* parameters, a parameter with an empty value counted as a parameter
differ_in_host_path_or_query(u, v) ==
    \/ u.host # v.host
    \/ u.path # v.path
    \/ query_bag(u.query) # query_bag(v.query)

\* C26: two URLs that differ in their path, in their host or in the value of
\* a query parameter, the empty value included, have different fingerprints.
C26_DistinctFingerprints ==
    (/\ call.function = "generate_url_hash"
     /\ call.returned
     /\ differ_in_host_path_or_query(call.args[1], call.args[2]))
        => call.value[1] # call.value[2]

====
